---- MODULE Spec2Model ----
(***************************************************************************)
(* Model of src/myrient_zip_crawler.py: MyrientZipCrawler, a pool of       *)
(* worker threads that share a queue of directory URLs, a visited set and  *)
(* a set of collected target-file URLs.                                    *)
(*                                                                         *)
(* Strings are sequences of one-character strings, so that rstrip, split,  *)
(* startswith, endswith, lower, urlparse and urljoin are computed on the   *)
(* characters, as Python computes them.  The alphabet holds no '?', '#'    *)
(* or ';', so URLs have no params, query or fragment.                      *)
(***************************************************************************)
EXTENDS Bags, FiniteSets, Integers, Sequences, TLC

\* ------------------------------------------------------------------ bounds
MaxThreads == 2
MaxSegs == 2

\* ----------------------------------------------------------- str methods
UpperCase == <<"A","B","C","D","E","F","G","H","I","J","K","L","M",
               "N","O","P","Q","R","S","T","U","V","W","X","Y","Z">>
LowerCase == <<"a","b","c","d","e","f","g","h","i","j","k","l","m",
               "n","o","p","q","r","s","t","u","v","w","x","y","z">>
Digits == {"0","1","2","3","4","5","6","7","8","9"}

Range(s) == {s[i] : i \in DOMAIN s}

\* str.lower() on one character
LowerChar(c) ==
  IF c \in Range(UpperCase)
  THEN LowerCase[CHOOSE i \in DOMAIN UpperCase : UpperCase[i] = c]
  ELSE c

\* str.lower()
Lower(s) == [i \in DOMAIN s |-> LowerChar(s[i])]

\* str.startswith(p)
StartsWith(s, p) == Len(p) <= Len(s) /\ SubSeq(s, 1, Len(p)) = p

\* str.endswith(p)
EndsWith(s, p) == Len(p) <= Len(s) /\ SubSeq(s, Len(s) - Len(p) + 1, Len(s)) = p

\* str.rstrip(c): drop every trailing c
RECURSIVE RStrip(_, _)
RStrip(s, c) ==
  IF s # <<>> /\ s[Len(s)] = c THEN RStrip(SubSeq(s, 1, Len(s) - 1), c) ELSE s

\* str.strip(): drop leading and trailing blanks
RECURSIVE LStrip(_, _)
LStrip(s, c) == IF s # <<>> /\ s[1] = c THEN LStrip(Tail(s), c) ELSE s

Strip(s) == LStrip(RStrip(s, " "), " ")

\* str.find(c): 0 when c does not occur, else the first index (1-based)
Find(s, c) ==
  IF c \in Range(s) THEN CHOOSE i \in DOMAIN s : s[i] = c /\ \A j \in 1..(i - 1) : s[j] # c
  ELSE 0

\* str.split(c): ''.split(c) is [''], and empty pieces are kept
RECURSIVE Split(_, _)
Split(s, c) ==
  LET i == Find(s, c) IN
  IF i = 0 THEN <<s>>
  ELSE <<SubSeq(s, 1, i - 1)>> \o Split(SubSeq(s, i + 1, Len(s)), c)

\* c.join(parts)
RECURSIVE Join(_, _)
Join(parts, c) ==
  IF parts = <<>> THEN <<>>
  ELSE IF Len(parts) = 1 THEN parts[1]
  ELSE parts[1] \o <<c>> \o Join(Tail(parts), c)

\* filter(None, parts): drop the empty strings
RECURSIVE FilterNonEmpty(_)
FilterNonEmpty(parts) ==
  IF parts = <<>> THEN <<>>
  ELSE IF parts[1] = <<>> THEN FilterNonEmpty(Tail(parts))
  ELSE <<parts[1]>> \o FilterNonEmpty(Tail(parts))

\* -------------------------------------------------------- urllib.parse
SchemeChars == Range(LowerCase) \cup Range(UpperCase) \cup Digits \cup {"+", "-", "."}

\* urlparse: with i = url.find(':'), the text before the first ':' is the
\* scheme when it starts with a letter and is made of scheme characters
HasScheme(url, i) ==
  /\ i > 1
  /\ url[1] \in Range(LowerCase) \cup Range(UpperCase)
  /\ \A j \in 1..(i - 1) : url[j] \in SchemeChars

\* urlparse: the netloc follows '//' and runs to the next '/', at k in after
NetlocAt(scheme, after, k) ==
  [scheme |-> scheme,
   netloc |-> IF k = 0 THEN after ELSE SubSeq(after, 1, k - 1),
   path |-> IF k = 0 THEN <<>> ELSE SubSeq(after, k, Len(after))]

\* urlparse: what follows the scheme
SplitNetloc(scheme, rest) ==
  IF StartsWith(rest, <<"/", "/">>)
  THEN NetlocAt(scheme, SubSeq(rest, 3, Len(rest)), Find(SubSeq(rest, 3, Len(rest)), "/"))
  ELSE [scheme |-> scheme, netloc |-> <<>>, path |-> rest]

SplitScheme(url, default_scheme, i) ==
  IF HasScheme(url, i)
  THEN SplitNetloc(Lower(SubSeq(url, 1, i - 1)), SubSeq(url, i + 1, Len(url)))
  ELSE SplitNetloc(default_scheme, url)

\* urlparse(url, scheme)
urlparse(url, default_scheme) == SplitScheme(url, default_scheme, Find(url, ":"))

\* urlunparse((scheme, netloc, path, '', '', ''))
urlunparse(scheme, netloc, path) ==
  (IF scheme # <<>> THEN scheme \o <<":">> ELSE <<>>)
  \o (IF netloc # <<>> \/ (scheme # <<>> /\ ~StartsWith(path, <<"/", "/">>))
      THEN <<"/", "/">> \o netloc
           \o (IF path # <<>> /\ path[1] # "/" THEN <<"/">> ELSE <<>>)
      ELSE <<>>)
  \o path

\* urljoin: the loop that resolves '.' and '..': a '..' pops the last
\* resolved segment, and is ignored when none is left
RECURSIVE ResolveDots(_, _)
ResolveDots(segments, resolved) ==
  IF segments = <<>> THEN resolved
  ELSE IF Head(segments) = <<".", ".">>
  THEN ResolveDots(Tail(segments),
                   IF resolved = <<>> THEN <<>>
                   ELSE SubSeq(resolved, 1, Len(resolved) - 1))
  ELSE IF Head(segments) = <<".">> THEN ResolveDots(Tail(segments), resolved)
  ELSE ResolveDots(Tail(segments), Append(resolved, Head(segments)))

\* urljoin: base_parts = bpath.split('/'), without a last item that is no directory
BaseParts(bp) == IF bp[Len(bp)] # <<>> THEN SubSeq(bp, 1, Len(bp) - 1) ELSE bp

\* urljoin: segments[1:-1] = filter(None, segments[1:-1])
FilterInner(segments) ==
  IF Len(segments) <= 2 THEN segments
  ELSE <<segments[1]>> \o FilterNonEmpty(SubSeq(segments, 2, Len(segments) - 1))
       \o <<segments[Len(segments)]>>

\* urljoin: an absolute path stands alone, a relative one follows base_parts
Segments(base_parts, path) ==
  IF path[1] = "/" THEN Split(path, "/")
  ELSE FilterInner(base_parts \o Split(path, "/"))

\* urljoin: a last segment '.' or '..' leaves a trailing '/'
WithTrailing(resolved, last) ==
  IF last \in {<<".">>, <<".", ".">>} THEN Append(resolved, <<>>) ELSE resolved

\* urljoin: '/'.join(resolved_path) or '/'
PathOrRoot(p) == IF p = <<>> THEN <<"/">> ELSE p

ResolveSegments(segments) ==
  PathOrRoot(Join(WithTrailing(ResolveDots(segments, <<>>), segments[Len(segments)]), "/"))

\* urljoin, with both URLs parsed
JoinParsed(b, u, url) ==
  IF u.scheme # b.scheme THEN url
  ELSE IF u.netloc # <<>> THEN urlunparse(u.scheme, u.netloc, u.path)
  ELSE IF u.path = <<>> THEN urlunparse(u.scheme, b.netloc, b.path)
  ELSE urlunparse(u.scheme, b.netloc,
                  ResolveSegments(Segments(BaseParts(Split(b.path, "/")), u.path)))

JoinParsedBase(b, url) == JoinParsed(b, urlparse(url, b.scheme), url)

\* urljoin(base, url)
urljoin(base, url) ==
  IF base = <<>> THEN url
  ELSE IF url = <<>> THEN base
  ELSE JoinParsedBase(urlparse(base, <<>>), url)

\* ------------------------------------------------ the strings of the model
U_f == <<"h","t","t","p",":","/","/","h","/","f","/">>  \* "http://h/f/"
U_f_noslash == <<"h","t","t","p",":","/","/","h","/","f">>  \* "http://h/f"
U_fa == <<"h","t","t","p",":","/","/","h","/","f","/","a","/">>  \* "http://h/f/a/"
U_fb == <<"h","t","t","p",":","/","/","h","/","f","/","b","/">>  \* "http://h/f/b/"
U_fc == <<"h","t","t","p",":","/","/","h","/","f","/","c","/">>  \* "http://h/f/c/"
U_f2 == <<"h","t","t","p",":","/","/","h","/","f","2","/">>  \* "http://h/f2/"
U_fg == <<"h","t","t","p",":","/","/","h","/","f","/","g",".","z","i","p","/">>  \* "http://h/f/g.zip/"
U_top == <<"h","t","t","p",":","/","/","h","/">>  \* "http://h/"
H_up == <<".",".","/">>  \* "../"
H_dotdot == <<".",".">>  \* ".."
H_a == <<"a","/">>  \* "a/"
H_b == <<"b","/">>  \* "b/"
H_x == <<"x",".","z","i","p">>  \* "x.zip"
H_y == <<"y",".","z","i","p">>  \* "y.zip"
H_root == <<"/","f","/">>  \* "/f/"
H_c == <<"/","f","/","c","/">>  \* "/f/c/"
H_W == <<"w",".","Z","I","P">>  \* "w.ZIP"
H_sib == <<".",".","/","f","2","/">>  \* "../f2/"
H_z == <<"z",".","z","i","p">>  \* "z.zip"
H_back == <<".",".","/","f","/","a","/">>  \* "../f/a/"
H_other == <<"/","/","o","/","f","/">>  \* "//o/f/"
H_otherzip == <<"h","t","t","p",":","/","/","o","/","f","/","x",".","z","i","p">>  \* "http://o/f/x.zip"
H_mp4 == <<"v",".","m","p","4">>  \* "v.mp4"
H_iso == <<"r",".","i","s","o">>  \* "r.iso"
H_plain == <<"n">>  \* "n"
H_gdir == <<"g",".","z","i","p","/">>  \* "g.zip/"
H_d == <<"d","/">>  \* "d/"
T_zip == <<"z","i","p">>  \* "zip"
T_zip_iso == <<"z","i","p",","," ","I","S","O">>  \* "zip, ISO"
X_zip == <<".","z","i","p">>  \* ".zip"
X_iso == <<".","i","s","o">>  \* ".iso"

\* the list of should_skip_file
skip_extensions ==
  <<<<".","m","p","4">>,
    <<".","a","v","i">>,
    <<".","m","k","v">>,
    <<".","m","o","v">>,
    <<".","w","m","v">>,
    <<".","f","l","v">>,
    <<".","w","e","b","m">>,
    <<".","m","p","3">>,
    <<".","w","a","v">>,
    <<".","f","l","a","c">>,
    <<".","a","a","c">>,
    <<".","o","g","g">>,
    <<".","m","4","a">>,
    <<".","j","p","g">>,
    <<".","j","p","e","g">>,
    <<".","p","n","g">>,
    <<".","g","i","f">>,
    <<".","b","m","p">>,
    <<".","t","i","f","f">>,
    <<".","w","e","b","p">>,
    <<".","p","d","f">>,
    <<".","d","o","c">>,
    <<".","d","o","c","x">>,
    <<".","t","x","t">>,
    <<".","r","t","f">>,
    <<".","e","x","e">>,
    <<".","m","s","i">>,
    <<".","d","m","g">>,
    <<".","p","k","g">>,
    <<".","d","e","b">>,
    <<".","r","p","m">>,
    <<".","i","s","o">>,
    <<".","b","i","n">>,
    <<".","c","u","e">>,
    <<".","i","m","g">>,
    <<".","j","s","o","n">>,
    <<".","x","m","l">>,
    <<".","c","s","v">>,
    <<".","s","q","l">>,
    <<".","d","b">>,
    <<".","s","q","l","i","t","e">>>>

\* ------------------------------------------------- MyrientZipCrawler, pure
\* mutant: the base URL is kept as given
NormalizeBaseRaw(base_arg) == base_arg

\* __init__: self.base_url = base_url.rstrip('/') + '/'
NormalizeBase(base_arg) == RStrip(base_arg, "/") \o <<"/">>

\* __init__: self.file_types = [f".{ext.strip().lower()}" for ext in file_types.split(',')]
ParseFileTypes(arg) ==
  LET parts == Split(arg, ",") IN [i \in DOMAIN parts |-> <<".">> \o Lower(Strip(parts[i]))]

\* is_valid_url, after the netloc test: the paths without trailing slashes
ValidPaths(base_path, url_path) ==
  IF ~StartsWith(url_path, base_path) THEN FALSE
  ELSE IF Len(IF url_path # <<>> THEN Split(url_path, "/") ELSE <<>>)
          < Len(IF base_path # <<>> THEN Split(base_path, "/") ELSE <<>>) THEN FALSE
  ELSE TRUE

ValidParsed(parsed_base, parsed_url) ==
  IF parsed_url.netloc # parsed_base.netloc THEN FALSE
  ELSE ValidPaths(RStrip(parsed_base.path, "/"), RStrip(parsed_url.path, "/"))

is_valid_url(base, url) == ValidParsed(urlparse(base, <<>>), urlparse(url, <<>>))

\* any(url_lower.endswith(ext) for ext in exts)
EndsWithAny(url_lower, exts) == \E i \in DOMAIN exts : EndsWith(url_lower, exts[i])

\* mutant: the URL is not lowercased
is_target_file_cased(ft, url) == EndsWithAny(url, ft)

is_target_file(ft, url) == EndsWithAny(Lower(url), ft)

is_directory(url) == EndsWith(url, <<"/">>)

\* mutant: the extension is looked for before a trailing '/'
should_skip_file_stem(ft, url) ==
  IF is_target_file(ft, url) THEN FALSE
  ELSE EndsWithAny(RStrip(Lower(url), "/"), skip_extensions)

should_skip_file(ft, url) ==
  IF is_target_file(ft, url) THEN FALSE
  ELSE EndsWithAny(Lower(url), skip_extensions)

\* the if-chain of extract_links on an in-scope absolute URL
classify(ft, absolute_url) ==
  IF is_target_file(ft, absolute_url) THEN "TargetFile"
  ELSE IF should_skip_file(ft, absolute_url) THEN "Ignored"
  ELSE IF is_directory(absolute_url) THEN "Directory"
  ELSE "Ignored"

\* ------------------------------------------------------------ the served trees
\* A site is the command line (base URL, file types) and the index pages the
\* server answers with: page URL -> the href values of its anchors, in order.
\* A GET of any other URL fails (raise_for_status).
Sites ==
  << \* a directory and a file below the root, parent anchors on both pages
     [base_arg |-> U_f, file_types_arg |-> T_zip,
      web |-> (U_f :> <<H_up, H_a, H_x>>) @@ (U_fa :> <<H_up, H_y>>)],
     \* a directory linked from two pages, and links back to the root
     [base_arg |-> U_f_noslash, file_types_arg |-> T_zip,
      web |-> (U_f :> <<H_a, H_b>>) @@ (U_fa :> <<H_root, H_c>>)
              @@ (U_fb :> <<H_c, H_root>>) @@ (U_fc :> <<H_W>>)],
     \* a sibling directory whose name starts with the root's name
     [base_arg |-> U_f, file_types_arg |-> T_zip,
      web |-> (U_f :> <<H_sib, H_x>>) @@ (U_f2 :> <<H_z, H_back>>)
              @@ (U_fa :> <<H_y>>)],
     \* other hosts, denylisted and plain files, a directory named like a file
     [base_arg |-> U_f, file_types_arg |-> T_zip_iso,
      web |-> (U_f :> <<H_other, H_otherzip, H_mp4, H_iso, H_plain, H_gdir, H_W>>)
              @@ (U_fg :> <<H_dotdot, H_d>>)] >>

\* extract_links on one anchor: what becomes of href, resolved to absolute_url
AnchorKind(base, ft, href, absolute_url) ==
  IF href \in {H_up, H_dotdot} THEN "Parent"
  ELSE IF ~is_valid_url(base, absolute_url) THEN "Invalid"
  ELSE classify(ft, absolute_url)

\* extract_links: links.append(absolute_url) for a directory
LinksWith(ls, absolute_url, kind) ==
  IF kind = "Directory" THEN Append(ls, absolute_url) ELSE ls

\* extract_links on one anchor of the page current_url
ResolvedAs(base, ft, href, absolute_url) ==
  [url |-> absolute_url, kind |-> AnchorKind(base, ft, href, absolute_url)]

ResolveAnchor(base, ft, current_url, href) ==
  ResolvedAs(base, ft, href, urljoin(current_url, href))

\* What extract_links computes for an anchor depends on nothing but
\* self.base_url, self.file_types, the page and the href, none of which
\* changes during a run: it is computed once, when the run is set up, for
\* every anchor of every page the server has, and looked up by the workers.
AnchorTable(s, base, ft) ==
  [page \in DOMAIN Sites[s].web |->
    [i \in DOMAIN Sites[s].web[page] |->
      ResolveAnchor(base, ft, page, Sites[s].web[page][i])]]

\* ---------------------------------------------------------------- state
VARIABLES
  site,             \* index of the served tree and command line
  base_url,         \* self.base_url
  file_types,       \* self.file_types
  max_threads,      \* self.max_threads
  visited_urls,     \* self.visited_urls
  zip_urls,         \* self.zip_urls
  url_queue,        \* self.url_queue: the FIFO of queue.Queue
  unfinished_tasks, \* self.url_queue.unfinished_tasks
  pc,               \* per worker thread: new, get, fetch, extract, claim, stopped
  url,              \* per worker: the URL it dequeued
  anchors,          \* per worker: soup.find_all('a', href=True) of the page
  ai,               \* per worker: position of extract_links in anchors
  links,            \* per worker: the list extract_links builds and returns
  li,               \* per worker: position of crawl_url's loop in links
  mpc,              \* the main thread: in crawl() start, join, returned; then in
                    \* main() saving, saved, done, or interrupted, failed
  started,          \* threads started by crawl()
  joined,           \* threads joined by crawl()
  put_count,        \* history: bag of the URLs put on url_queue
  get_count,        \* history: bag of the URLs session.get was called with
  failed,           \* history: the URLs whose GET failed
  fetched,          \* history: the URLs whose GET succeeded
  resolved,         \* by page: urljoin and the class of each of its anchors
  pending,          \* save_results: what is left of sorted(self.zip_urls)
  out_file,         \* the output file: whether it was opened, and its lines
  printed,          \* what main() has printed since it built the crawler
  call              \* a direct call of a method on a constructed crawler

vars == <<site, base_url, file_types, max_threads, visited_urls, zip_urls,
          url_queue, unfinished_tasks, pc, url, anchors, ai, links, li,
          mpc, started, joined, put_count, get_count, failed, fetched,
          resolved, pending, out_file, printed, call>>

Workers == 1..MaxThreads

NoCall == [fn |-> "none"]

\* MyrientZipCrawler(base_url, max_threads, file_types), before crawl(),
\* against the server of site s
Constructed(s, base_arg, file_types_arg, n) ==
  /\ site = s
  /\ base_url = NormalizeBase(base_arg)
  /\ file_types = ParseFileTypes(file_types_arg)
  /\ max_threads = n
  /\ visited_urls = {}
  /\ zip_urls = {}
  /\ url_queue = <<NormalizeBase(base_arg)>>
  /\ unfinished_tasks = 1
  /\ pc = [w \in Workers |-> "new"]
  /\ url = [w \in Workers |-> <<>>]
  /\ anchors = [w \in Workers |-> <<>>]
  /\ ai = [w \in Workers |-> 1]
  /\ links = [w \in Workers |-> <<>>]
  /\ li = [w \in Workers |-> 1]
  /\ mpc = "start"
  /\ started = 0
  /\ joined = 0
  /\ put_count = SetToBag({NormalizeBase(base_arg)})
  /\ get_count = EmptyBag
  /\ failed = {}
  /\ fetched = {}
  /\ resolved = AnchorTable(s, NormalizeBase(base_arg), ParseFileTypes(file_types_arg))
  /\ pending = <<>>
  /\ out_file = [written |-> FALSE, lines |-> <<>>]
  /\ printed = <<>>

Init ==
  /\ \E s \in DOMAIN Sites : \E n \in 1..MaxThreads :
       Constructed(s, Sites[s].base_arg, Sites[s].file_types_arg, n)
  /\ call = NoCall

\* ------------------------------------------------------------- crawl()
\* crawl(): thread.start() for each of max_threads workers, in order
StartThread ==
  /\ mpc = "start"
  /\ started < max_threads
  /\ started' = started + 1
  /\ pc' = [pc EXCEPT ![started + 1] = "get"]
  /\ mpc' = IF started + 1 = max_threads THEN "join" ELSE "start"
  /\ UNCHANGED <<site, resolved, fetched, pending, out_file, printed, base_url, file_types, max_threads, visited_urls, zip_urls,
                 url_queue, unfinished_tasks, url, anchors, ai, links, li,
                 joined, put_count, get_count, failed, call>>

\* mutant: thread.join(timeout) returns whether or not the worker has ended
JoinThreadTimeout ==
  /\ mpc = "join"
  /\ joined < max_threads
  /\ joined' = joined + 1
  /\ mpc' = IF joined + 1 = max_threads THEN "returned" ELSE "join"
  /\ UNCHANGED <<site, resolved, fetched, pending, out_file, printed, base_url,
                 file_types, max_threads, visited_urls, zip_urls, url_queue,
                 unfinished_tasks, pc, url, anchors, ai, links, li, started,
                 put_count, get_count, failed, call>>

\* crawl(): thread.join() returns once that worker has ended; after the last
\* join crawl() logs and returns
JoinThread ==
  /\ mpc = "join"
  /\ joined < max_threads
  /\ pc[joined + 1] = "stopped"
  /\ joined' = joined + 1
  /\ mpc' = IF joined + 1 = max_threads THEN "returned" ELSE "join"
  /\ UNCHANGED <<site, resolved, fetched, pending, out_file, printed, base_url, file_types, max_threads, visited_urls, zip_urls,
                 url_queue, unfinished_tasks, pc, url, anchors, ai, links, li,
                 started, put_count, get_count, failed, call>>

\* ------------------------------------------------------------- worker()
\* url = self.url_queue.get(timeout=5) returns the head of the queue
WorkerGet(w) ==
  /\ pc[w] = "get"
  /\ url_queue # <<>>
  /\ url' = [url EXCEPT ![w] = Head(url_queue)]
  /\ url_queue' = Tail(url_queue)
  /\ pc' = [pc EXCEPT ![w] = "fetch"]
  /\ UNCHANGED <<site, resolved, fetched, pending, out_file, printed, base_url, file_types, max_threads, visited_urls, zip_urls,
                 unfinished_tasks, anchors, ai, links, li, mpc, started, joined,
                 put_count, get_count, failed, call>>

\* mutant: 'continue' for 'break', the worker polls again and never ends
WorkerTimeoutContinue(w) ==
  /\ pc[w] = "get"
  /\ url_queue = <<>>
  /\ UNCHANGED vars

\* mutant: the worker may give up whatever the queue holds
WorkerTimeoutAnytime(w) ==
  /\ pc[w] = "get"
  /\ pc' = [pc EXCEPT ![w] = "stopped"]
  /\ UNCHANGED <<site, resolved, fetched, pending, out_file, printed, base_url, file_types, max_threads, visited_urls, zip_urls,
                 url_queue, unfinished_tasks, url, anchors, ai, links, li,
                 mpc, started, joined, put_count, get_count, failed, call>>

\* get(timeout=5) raises queue.Empty, with the queue empty, and the worker
\* breaks out of its loop
WorkerTimeout(w) ==
  /\ pc[w] = "get"
  /\ url_queue = <<>>
  /\ pc' = [pc EXCEPT ![w] = "stopped"]
  /\ UNCHANGED <<site, resolved, fetched, pending, out_file, printed, base_url, file_types, max_threads, visited_urls, zip_urls,
                 url_queue, unfinished_tasks, url, anchors, ai, links, li,
                 mpc, started, joined, put_count, get_count, failed, call>>

\* mutant: the except clause puts the URL back on the queue, to be retried
FetchFailRetry(w) ==
  /\ pc[w] = "fetch"
  /\ get_count' = get_count (+) SetToBag({url[w]})
  /\ failed' = failed \cup {url[w]}
  /\ url_queue' = Append(url_queue, url[w])
  /\ put_count' = put_count (+) SetToBag({url[w]})
  /\ pc' = [pc EXCEPT ![w] = "get"]
  /\ UNCHANGED <<site, resolved, fetched, pending, out_file, printed, base_url,
                 file_types, max_threads, visited_urls, zip_urls,
                 unfinished_tasks, url, anchors, ai, links, li, mpc, started,
                 joined, call>>

\* mutant: crawl_url without its except clauses, the exception ends the thread
FetchFailStops(w) ==
  /\ pc[w] = "fetch"
  /\ get_count' = get_count (+) SetToBag({url[w]})
  /\ failed' = failed \cup {url[w]}
  /\ pc' = [pc EXCEPT ![w] = "stopped"]
  /\ UNCHANGED <<site, resolved, fetched, pending, out_file, printed, base_url,
                 file_types, max_threads, visited_urls, zip_urls, url_queue,
                 unfinished_tasks, url, anchors, ai, links, li, mpc, started,
                 joined, put_count, call>>

\* crawl_url returns to worker(), which calls task_done() and loops
Returned(w) ==
  /\ unfinished_tasks' = unfinished_tasks - 1
  /\ pc' = [pc EXCEPT ![w] = "get"]

\* crawl_url up to the response: a URL that is no directory returns at once;
\* otherwise GET url.  Here the GET fails (raise_for_status, a transport
\* error or the 30 s timeout): the exception is logged and crawl_url returns.
FetchFail(w) ==
  /\ pc[w] = "fetch"
  /\ IF ~is_directory(url[w])
     THEN UNCHANGED <<get_count, failed>>
     ELSE /\ get_count' = get_count (+) SetToBag({url[w]})
          /\ failed' = failed \cup {url[w]}
  /\ Returned(w)
  /\ UNCHANGED <<site, resolved, fetched, pending, out_file, printed, base_url, file_types, max_threads, visited_urls, zip_urls,
                 url_queue, url, anchors, ai, links, li, mpc, started, joined,
                 put_count, call>>

\* extract_links has run through the anchors: crawl_url goes on to its loop
\* over links, or returns when there are none
AfterExtract(w, ls) ==
  IF ls = <<>>
  THEN Returned(w)
  ELSE /\ pc' = [pc EXCEPT ![w] = "claim"]
       /\ UNCHANGED unfinished_tasks

\* the GET succeeds and BeautifulSoup lists the anchors of the page
FetchOk(w) ==
  /\ pc[w] = "fetch"
  /\ is_directory(url[w])
  /\ url[w] \in DOMAIN Sites[site].web
  /\ get_count' = get_count (+) SetToBag({url[w]})
  /\ fetched' = fetched \cup {url[w]}
  /\ anchors' = [anchors EXCEPT ![w] = Sites[site].web[url[w]]]
  /\ ai' = [ai EXCEPT ![w] = 1]
  /\ links' = [links EXCEPT ![w] = <<>>]
  /\ li' = [li EXCEPT ![w] = 1]
  /\ IF Sites[site].web[url[w]] = <<>>
     THEN Returned(w)
     ELSE /\ pc' = [pc EXCEPT ![w] = "extract"]
          /\ UNCHANGED unfinished_tasks
  /\ UNCHANGED <<site, resolved, pending, out_file, printed, base_url, file_types, max_threads, visited_urls, zip_urls,
                 url_queue, url, mpc, started, joined, put_count, failed, call>>

\* extract_links: the effect of one anchor, and what follows the last one
Collect(w, a) ==
  /\ zip_urls' = IF a.kind = "TargetFile" THEN zip_urls \cup {a.url} ELSE zip_urls
  /\ links' = [links EXCEPT ![w] = LinksWith(links[w], a.url, a.kind)]
  /\ ai' = [ai EXCEPT ![w] = ai[w] + 1]
  /\ IF ai[w] = Len(anchors[w])
     THEN AfterExtract(w, LinksWith(links[w], a.url, a.kind))
     ELSE UNCHANGED <<pc, unfinished_tasks>>

\* extract_links: one iteration of the loop over the anchors
ExtractLink(w) ==
  /\ pc[w] = "extract"
  /\ Collect(w, resolved[url[w]][ai[w]])
  /\ UNCHANGED <<site, resolved, fetched, pending, out_file, printed, base_url, file_types, max_threads, visited_urls,
                 url_queue, url, anchors, li, mpc, started, joined,
                 put_count, get_count, failed, call>>

\* crawl_url: the body of 'with self.lock', and the end of the loop
Claim(w, link, new) ==
  /\ visited_urls' = IF new THEN visited_urls \cup {link} ELSE visited_urls
  /\ url_queue' = IF new THEN Append(url_queue, link) ELSE url_queue
  /\ put_count' = IF new THEN put_count (+) SetToBag({link}) ELSE put_count
  /\ li' = [li EXCEPT ![w] = li[w] + 1]
  /\ pc' = IF li[w] = Len(links[w]) THEN [pc EXCEPT ![w] = "get"] ELSE pc
  /\ unfinished_tasks' = unfinished_tasks + (IF new THEN 1 ELSE 0)
                          - (IF li[w] = Len(links[w]) THEN 1 ELSE 0)

\* mutant: the membership test is missing
NotVisitedUnchecked(link) == TRUE

\* crawl_url: 'if link not in self.visited_urls'
NotVisited(link) == link \notin visited_urls

\* crawl_url: one iteration of 'for link in links', under self.lock
ClaimLink(w) ==
  /\ pc[w] = "claim"
  /\ Claim(w, links[w][li[w]], NotVisited(links[w][li[w]]))
  /\ UNCHANGED <<site, resolved, fetched, pending, out_file, printed, base_url, file_types, max_threads, zip_urls, url, anchors,
                 ai, links, mpc, started, joined, get_count, failed, call>>

WorkerStep(w) ==
  \/ WorkerGet(w)
  \/ WorkerTimeout(w)
  \/ FetchFail(w)
  \/ FetchOk(w)
  \/ ExtractLink(w)
  \/ ClaimLink(w)

MainStep == StartThread \/ JoinThread

Next ==
  \/ StartThread
  \/ JoinThread
  \/ \E w \in Workers : WorkerGet(w)
  \/ \E w \in Workers : WorkerTimeout(w)
  \/ \E w \in Workers : FetchFail(w)
  \/ \E w \in Workers : FetchOk(w)
  \/ \E w \in Workers : ExtractLink(w)
  \/ \E w \in Workers : ClaimLink(w)

Spec == Init /\ [][Next]_vars

\* the threads run and every GET ends (timeout=30)
FairSpec ==
  /\ Spec
  /\ WF_vars(MainStep)
  /\ \A w \in Workers : WF_vars(WorkerStep(w))

\* ------------------------------------------------------------- main()
\* --output, default "myrient_zip_links.txt"
output_file == "myrient_zip_links.txt"

\* the characters of the model in the order of their code points, which is
\* the order in which Python compares the characters of two str
CodePoints ==
  <<" ", "+", ",", "-", ".", "/",
    "0", "1", "2", "3", "4", "5", "6", "7", "8", "9", ":",
    "A", "B", "C", "D", "E", "F", "G", "H", "I", "J", "K", "L", "M",
    "N", "O", "P", "Q", "R", "S", "T", "U", "V", "W", "X", "Y", "Z",
    "a", "b", "c", "d", "e", "f", "g", "h", "i", "j", "k", "l", "m",
    "n", "o", "p", "q", "r", "s", "t", "u", "v", "w", "x", "y", "z">>

ord(c) == CHOOSE i \in 1..Len(CodePoints) : CodePoints[i] = c

\* a < b on str: at the first index where they differ a has the smaller
\* character, or a has ended there
StrLess(a, b) ==
  \E i \in 1..Len(b) :
    /\ \A j \in 1..(i - 1) : j <= Len(a) /\ a[j] = b[j]
    /\ \/ i = Len(a) + 1
       \/ i <= Len(a) /\ ord(a[i]) < ord(b[i])

\* the least and the greatest str of a non-empty set
MinStr(S) == CHOOSE x \in S : \A y \in S \ {x} : StrLess(x, y)

MaxStr(S) == CHOOSE x \in S : \A y \in S \ {x} : StrLess(y, x)

RECURSIVE sorted_reverse(_)
\* mutant: sorted(self.zip_urls, reverse=True)
sorted_reverse(S) ==
  IF S = {} THEN <<>> ELSE <<MaxStr(S)>> \o sorted_reverse(S \ {MaxStr(S)})

RECURSIVE sorted(_)
\* sorted(S) of a set of str: its elements in ascending order
sorted(S) ==
  IF S = {} THEN <<>> ELSE <<MinStr(S)>> \o sorted(S \ {MinStr(S)})

\* save_results: open(output_file, 'w') truncates or creates the file, and
\* sorted(self.zip_urls) is evaluated once, when the loop starts
SaveOpen ==
  /\ mpc = "returned"
  /\ mpc' = "saving"
  /\ out_file' = [written |-> TRUE, lines |-> <<>>]
  /\ pending' = sorted(zip_urls)
  /\ UNCHANGED <<site, resolved, fetched, printed, base_url, file_types, max_threads,
                 visited_urls, zip_urls, url_queue, unfinished_tasks, pc, url,
                 anchors, ai, links, li, started, joined, put_count, get_count,
                 failed, call>>

\* save_results: open() raises OSError; main() catches it as Exception and
\* prints "Crawling failed"
SaveFail ==
  /\ mpc = "returned"
  /\ mpc' = "failed"
  /\ printed' = Append(printed, [msg |-> "failed"])
  /\ UNCHANGED <<site, resolved, fetched, pending, out_file, base_url, file_types,
                 max_threads, visited_urls, zip_urls, url_queue,
                 unfinished_tasks, pc, url, anchors, ai, links, li, started,
                 joined, put_count, get_count, failed, call>>

\* save_results: f.write(f"{url}\n") for the next url
SaveWrite ==
  /\ mpc = "saving"
  /\ pending # <<>>
  /\ out_file' = [out_file EXCEPT !.lines = Append(@, Head(pending))]
  /\ pending' = Tail(pending)
  /\ UNCHANGED <<site, resolved, fetched, printed, base_url, file_types, max_threads,
                 visited_urls, zip_urls, url_queue, unfinished_tasks, pc, url,
                 anchors, ai, links, li, mpc, started, joined, put_count,
                 get_count, failed, call>>

\* save_results: the loop is over, the file is closed, save_results logs and
\* returns
SaveClose ==
  /\ mpc = "saving"
  /\ pending = <<>>
  /\ mpc' = "saved"
  /\ UNCHANGED <<site, resolved, fetched, pending, out_file, printed, base_url,
                 file_types, max_threads, visited_urls, zip_urls, url_queue,
                 unfinished_tasks, pc, url, anchors, ai, links, li, started,
                 joined, put_count, get_count, failed, call>>

\* mutant: the summary counts the pages, not the target files
PrintSummaryVisited ==
  /\ mpc = "saved"
  /\ mpc' = "done"
  /\ printed' = Append(printed, [msg |-> "completed",
                                 found |-> Cardinality(visited_urls),
                                 saved_to |-> output_file])
  /\ UNCHANGED <<site, resolved, fetched, pending, out_file, base_url, file_types,
                 max_threads, visited_urls, zip_urls, url_queue,
                 unfinished_tasks, pc, url, anchors, ai, links, li, started,
                 joined, put_count, get_count, failed, call>>

\* main(): "Crawling completed successfully!", "Found N target files",
\* "Results saved to: <output>", and main() returns
PrintSummary ==
  /\ mpc = "saved"
  /\ mpc' = "done"
  /\ printed' = Append(printed, [msg |-> "completed",
                                 found |-> Cardinality(zip_urls),
                                 saved_to |-> output_file])
  /\ UNCHANGED <<site, resolved, fetched, pending, out_file, base_url, file_types,
                 max_threads, visited_urls, zip_urls, url_queue,
                 unfinished_tasks, pc, url, anchors, ai, links, li, started,
                 joined, put_count, get_count, failed, call>>

\* the main thread is in the try block of main()
InTry == mpc \in {"start", "join", "returned", "saving", "saved"}

\* the operator's interrupt: KeyboardInterrupt is raised in the main thread,
\* wherever it is in the try block; the except branch logs and prints
\* "Crawling interrupted by user" and main() returns.  Nothing is said to
\* the worker threads, which are not daemon threads.
Interrupt ==
  /\ InTry
  /\ mpc' = "interrupted"
  /\ printed' = Append(printed, [msg |-> "interrupted"])
  /\ UNCHANGED <<site, resolved, fetched, pending, out_file, base_url, file_types,
                 max_threads, visited_urls, zip_urls, url_queue,
                 unfinished_tasks, pc, url, anchors, ai, links, li, started,
                 joined, put_count, get_count, failed, call>>

MainNext ==
  \/ Next
  \/ SaveOpen
  \/ SaveFail
  \/ SaveWrite
  \/ SaveClose
  \/ PrintSummary
  \/ Interrupt

\* a run of main(), with or without an interrupt
MainSpec == Init /\ [][MainNext]_vars

\* ------------------------------------------- direct calls (test_mock.py)
\* test_crawler_logic constructs a crawler and calls is_valid_url and
\* extract_links on it, without crawl().  The candidate URLs are
\* http://<host>/<segments>[/] with up to MaxSegs segments.
SegPool == {<<"f">>, <<"f", "2">>, <<".", ".">>, <<"a">>, H_x, H_W, H_iso}

SegLists == UNION {[1..n -> SegPool] : n \in 0..MaxSegs}

CandidateUrl(host, segs, slash) ==
  <<"h", "t", "t", "p", ":", "/", "/">> \o host \o <<"/">> \o Join(segs, "/")
  \o (IF slash /\ segs # <<>> THEN <<"/">> ELSE <<>>)

Candidates ==
  {CandidateUrl(h, s, sl) : h \in {<<"h">>, <<"o">>}, s \in SegLists, sl \in BOOLEAN}

BaseArgs == {U_f, U_f_noslash, U_top, U_fa}

FileTypesArgs == {T_zip, T_zip_iso}

CallInit ==
  \/ \E b \in BaseArgs, c \in Candidates :
       /\ Constructed(1, b, T_zip, 1)
       /\ call = [fn |-> "is_valid_url", arg |-> c, done |-> FALSE, res |-> FALSE]
  \/ \E t \in FileTypesArgs, c \in Candidates :
       /\ Constructed(1, U_f, t, 1)
       /\ call = [fn |-> "extract_links", arg |-> c, done |-> FALSE, res |-> <<>>]

\* is_valid = crawler.is_valid_url(url)
CallIsValidUrl ==
  /\ call.fn = "is_valid_url"
  /\ ~call.done
  /\ call' = [call EXCEPT !.done = TRUE, !.res = is_valid_url(base_url, call.arg)]
  /\ UNCHANGED <<site, resolved, fetched, pending, out_file, printed, base_url, file_types, max_threads, visited_urls, zip_urls,
                 url_queue, unfinished_tasks, pc, url, anchors, ai, links, li,
                 mpc, started, joined, put_count, get_count, failed>>

\* extract_links on a page of one anchor: its effect on zip_urls and the
\* list it returns
ExtractOne(absolute_url, kind) ==
  /\ zip_urls' = IF kind = "TargetFile" THEN zip_urls \cup {absolute_url} ELSE zip_urls
  /\ call' = [call EXCEPT !.done = TRUE, !.res = LinksWith(<<>>, absolute_url, kind)]

ExtractOneUrl(href, absolute_url) ==
  ExtractOne(absolute_url, AnchorKind(base_url, file_types, href, absolute_url))

\* links = crawler.extract_links(html, base_url), html holding the one
\* anchor <a href=call.arg>
CallExtractLinks ==
  /\ call.fn = "extract_links"
  /\ ~call.done
  /\ ExtractOneUrl(call.arg, urljoin(base_url, call.arg))
  /\ UNCHANGED <<site, resolved, fetched, pending, out_file, printed, base_url, file_types, max_threads, visited_urls,
                 url_queue, unfinished_tasks, pc, url, anchors, ai, links, li,
                 mpc, started, joined, put_count, get_count, failed>>

CallNext == CallIsValidUrl \/ CallExtractLinks

CallSpec == CallInit /\ [][CallNext]_vars

\* ===================================================================
\* Properties
\* ===================================================================

\* ---- what the specification calls the root subtree
\* the path of a URL, split on '/' and stripped of empty segments
PathSegments(u) == FilterNonEmpty(Split(urlparse(u, <<>>).path, "/"))

\* same host, and the root's segments are a prefix, segment by segment
UnderRoot(root, u) ==
  /\ urlparse(u, <<>>).netloc = urlparse(root, <<>>).netloc
  /\ StartsWith(PathSegments(u), PathSegments(root))

LowerEndsWithExt(ft, u) == \E i \in DOMAIN ft : EndsWith(Lower(u), ft[i])

\* the links of a page of site s, parent anchors aside, made absolute
PageLinks(s, page) ==
  {urljoin(page, Sites[s].web[page][i]) :
     i \in {j \in DOMAIN Sites[s].web[page] : Sites[s].web[page][j] \notin {H_up, H_dotdot}}}

\* the pages reachable from the pages in todo through directory links under root
RECURSIVE ReachablePages(_, _, _, _)
ReachablePages(s, root, todo, seen) ==
  IF todo = {} THEN seen
  ELSE LET page == CHOOSE x \in todo : TRUE
           next == IF page \in DOMAIN Sites[s].web
                   THEN {l \in PageLinks(s, page) : UnderRoot(root, l) /\ EndsWith(l, <<"/">>)}
                   ELSE {}
       IN ReachablePages(s, root, (todo \cup next) \ (seen \cup {page}), seen \cup {page})

\* the target links under root on the reachable pages
ExpectedTargets(s, root, ft) ==
  UNION {{l \in PageLinks(s, page) : UnderRoot(root, l) /\ LowerEndsWithExt(ft, l)} :
           page \in ReachablePages(s, root, {root}, {}) \cap DOMAIN Sites[s].web}

Enqueued == BagToSet(put_count)

Running(w) == pc[w] \in {"fetch", "extract", "claim"}

\* ---- C1: under fair scheduling crawl() eventually returns, every worker
\* stopped and every thread joined, on every tree (cycles included) and for
\* every number of threads.
C1_CrawlReturns ==
  <>(/\ mpc = "returned"
     /\ joined = max_threads
     /\ \A w \in 1..max_threads : pc[w] = "stopped")

\* crawl() has returned on the tree whose pages link back to the root
C1_ReturnedOnCycle ==
  /\ mpc = "returned"
  /\ site = 2
  /\ max_threads = MaxThreads
  /\ CopiesIn(base_url, get_count) = 2

\* ---- C2: when every fetch succeeds, zip_urls at the return of crawl() is
\* exactly the set of target links under the root found on the pages
\* reachable from the root through directory links under the root.
C2_ExactTargets ==
  (mpc = "returned" /\ failed = {})
    => zip_urls = ExpectedTargets(site, base_url, file_types)

\* ---- C3: no URL, the root included, is put on url_queue twice, and none
\* is fetched twice.
C3_EnqueuedAtMostOnce ==
  /\ \A u \in BagToSet(put_count) : CopiesIn(u, put_count) <= 1
  /\ \A u \in BagToSet(get_count) : CopiesIn(u, get_count) <= 1

\* ---- C4: in every reachable state, the initial one included, the set of
\* URLs ever put on url_queue equals visited_urls.
C4_EnqueuedEqualsVisited == Enqueued = visited_urls

\* ---- C5: the claim step is atomic: visited_urls only grows, a URL is put
\* on the queue in the very step that makes it visited, exactly once, and a
\* URL that is visited is never put on the queue again, whatever the other
\* workers do.
C5_ClaimAtomic ==
  [][/\ visited_urls \subseteq visited_urls'
     /\ \A u \in visited_urls' \ visited_urls :
          CopiesIn(u, put_count') = CopiesIn(u, put_count) + 1
     /\ \A u \in visited_urls : CopiesIn(u, put_count') = CopiesIn(u, put_count)
     /\ \A u \in BagToSet(put_count') :
          CopiesIn(u, put_count') # CopiesIn(u, put_count) => u \in visited_urls']_vars

\* two workers on different pages meet on one link: w2 has claimed it and
\* is still in its loop, w1 is about to try it, and it was enqueued once
C5_TwoClaimers ==
  \E w1, w2 \in Workers :
    /\ w1 # w2
    /\ pc[w1] = "claim" /\ pc[w2] = "claim"
    /\ url[w1] # url[w2]
    /\ li[w2] > 1
    /\ links[w1][li[w1]] = links[w2][li[w2] - 1]
    /\ links[w1][li[w1]] \in visited_urls
    /\ CopiesIn(links[w1][li[w1]], put_count) = 1

\* ---- C6 as stated: a worker stops only with the queue empty and no
\* worker fetching.
C6_StopsOnlyWhenNoFetch ==
  [][\A w \in Workers :
       (pc[w] # "stopped" /\ pc'[w] = "stopped")
         => (url_queue = <<>> /\ \A v \in Workers : pc[v] # "fetch")]_vars

\* ---- C6 amended: a worker stops only from its dequeue, with the queue
\* empty; it does not look at the other workers.
C6_StopsOnlyOnEmptyQueue ==
  [][\A w \in Workers :
       (pc[w] # "stopped" /\ pc'[w] = "stopped")
         => (pc[w] = "get" /\ url_queue = <<>>)]_vars

\* a worker has stopped while another is fetching a page that has links
C6_StoppedDuringFetch ==
  \E w, v \in Workers :
    /\ pc[w] = "stopped"
    /\ pc[v] = "fetch"
    /\ url[v] \in DOMAIN Sites[site].web
    /\ Sites[site].web[url[v]] # <<>>

\* ---- C7: every URL enqueued, fetched or collected lies under the root:
\* the root's host, and path segments that extend the root's.
C7_StaysUnderRoot ==
  \A u \in Enqueued \cup BagToSet(get_count) \cup zip_urls : UnderRoot(base_url, u)

\* ---- C8: is_valid_url is true iff the host is the root's and the root's
\* path segments are a prefix, segment by segment, of the candidate's.
C8_ScopeIsSegmentPrefix ==
  (call.fn = "is_valid_url" /\ call.done)
    => (call.res <=> UnderRoot(base_url, call.arg))

\* ---- C9: is_valid_url is false for every candidate that has, once its
\* '..' segments are resolved, fewer path segments than the root.
C9_RejectsEscape ==
  (/\ call.fn = "is_valid_url"
   /\ call.done
   /\ Len(ResolveDots(PathSegments(call.arg), <<>>)) < Len(PathSegments(base_url)))
    => ~call.res

\* ---- C10: extract_links puts an in-scope URL in exactly one class:
\* collected in zip_urls iff its lowercased form ends with a configured
\* extension, returned for the queue iff it ends with '/', dropped otherwise;
\* a URL ending in '/' is returned and never collected.
C10_ClassifyTotal ==
  (call.fn = "extract_links" /\ call.done /\ is_valid_url(base_url, call.arg))
    => /\ (call.arg \in zip_urls) <=> LowerEndsWithExt(file_types, call.arg)
       /\ (call.arg \in Range(call.res)) <=> EndsWith(call.arg, <<"/">>)
       /\ ~(call.arg \in zip_urls /\ call.arg \in Range(call.res))
       /\ zip_urls \subseteq {call.arg}
       /\ Range(call.res) \subseteq {call.arg}

\* extract_links has returned a directory whose name ends like a target file
C10_DirectoryNamedLikeFile ==
  /\ call.fn = "extract_links"
  /\ call.done
  /\ call.res = <<call.arg>>
  /\ zip_urls = {}
  /\ EndsWith(Lower(call.arg), X_zip \o <<"/">>)

\* ---- pages and target links that failed fetches leave reachable
\* the pages reachable from the pages in todo through directory links under
\* root, the links of a page in bad being unknown (its GET failed)
RECURSIVE ReachableAvoiding(_, _, _, _, _)
ReachableAvoiding(s, root, bad, todo, seen) ==
  IF todo = {} THEN seen
  ELSE LET page == CHOOSE x \in todo : TRUE
           next == IF page \in DOMAIN Sites[s].web /\ page \notin bad
                   THEN {l \in PageLinks(s, page) : UnderRoot(root, l) /\ EndsWith(l, <<"/">>)}
                   ELSE {}
       IN ReachableAvoiding(s, root, bad, (todo \cup next) \ (seen \cup {page}), seen \cup {page})

\* the target links under root on the pages reachable without passing
\* through a page in bad
TargetsAvoiding(s, root, ft, bad) ==
  UNION {{l \in PageLinks(s, page) : UnderRoot(root, l) /\ LowerEndsWithExt(ft, l)} :
           page \in (ReachableAvoiding(s, root, bad, {root}, {}) \cap DOMAIN Sites[s].web) \ bad}

\* ---- C11: a failed fetch is isolated: the worker it happened to goes back
\* to its dequeue and does not stop, crawl() still returns, and zip_urls then
\* holds every target link of every page reachable from the root without
\* passing through a directory whose fetch failed.
C11_FailureIsolated ==
  /\ [][\A w \in Workers : FetchFail(w) => pc'[w] = "get"]_vars
  /\ <>(/\ mpc = "returned"
        /\ TargetsAvoiding(site, base_url, file_types, failed) \subseteq zip_urls)

\* crawl() has returned, the fetch of a/ failed and the target below b/ was
\* collected all the same
C11_ReturnedPastFailure ==
  /\ mpc = "returned"
  /\ site = 2
  /\ failed = {U_fa}
  /\ zip_urls # {}
  /\ TargetsAvoiding(site, base_url, file_types, failed) # {}

\* ---- C12: after the operator's interrupt no worker starts new work: no URL
\* is dequeued once the interrupt has been delivered.
C12_NoDequeueAfterInterrupt ==
  [][mpc = "interrupted"
       => \A w \in Workers : ~(pc[w] = "get" /\ pc'[w] = "fetch")]_vars

\* ---- what a crawl yields as a function of the tree and of the set of
\* directory URLs whose fetch fails
DirectoryLinks(table, page) ==
  {table[page][i].url : i \in {j \in DOMAIN table[page] : table[page][j].kind = "Directory"}}

TargetLinks(table, page) ==
  {table[page][i].url : i \in {j \in DOMAIN table[page] : table[page][j].kind = "TargetFile"}}

\* the pages whose GET is issued: the root and, transitively, the directory
\* links of the pages whose GET does not fail
RECURSIVE PagesCrawled(_, _, _, _)
PagesCrawled(table, bad, todo, seen) ==
  IF todo = {} THEN seen
  ELSE LET page == CHOOSE x \in todo : TRUE
           next == IF page \in DOMAIN table /\ page \notin bad
                   THEN DirectoryLinks(table, page)
                   ELSE {}
       IN PagesCrawled(table, bad, (todo \cup next) \ (seen \cup {page}), seen \cup {page})

ResultOf(table, root, bad) ==
  UNION {TargetLinks(table, page) :
           page \in (PagesCrawled(table, bad, {root}, {}) \cap DOMAIN table) \ bad}

ResultOfRun == ResultOf(AnchorTable(site, base_url, file_types), base_url, failed)

\* ---- C13: for a fixed tree and a fixed set of directory URLs whose fetch
\* fails, every run ends with the same zip_urls and writes the same file,
\* whatever the number of threads and the interleaving: both are a function
\* of the tree and of the failing set alone.
C13_ResultIsFunctionOfTreeAndFailures ==
  (failed \cap fetched = {})
    => /\ mpc \in {"returned", "saving", "saved", "done", "failed"}
            => zip_urls = ResultOfRun
       /\ mpc \in {"saved", "done"} => out_file.lines = sorted(ResultOfRun)

\* a run of two threads in which the fetch of b/ failed has written its file
C13_TwoThreadsOneFailure ==
  /\ mpc = "done"
  /\ site = 2
  /\ max_threads = MaxThreads
  /\ failed = {U_fb}
  /\ fetched \cap failed = {}
  /\ out_file.lines # <<>>

\* ---- lexicographic order on str, character by character
RECURSIVE LexLess(_, _)
LexLess(a, b) ==
  IF b = <<>> THEN FALSE
  ELSE IF a = <<>> THEN TRUE
  ELSE IF Head(a) = Head(b) THEN LexLess(Tail(a), Tail(b))
  ELSE ord(Head(a)) < ord(Head(b))

\* ---- C14: the lines written are zip_urls in strictly ascending
\* lexicographic order, one URL per line: once save_results has returned
\* every element is there exactly once and nothing else is; and nothing is
\* written before every worker has stopped.
C14_OutputSortedComplete ==
  /\ out_file.written => \A w \in 1..max_threads : pc[w] = "stopped"
  /\ \A i \in 1..(Len(out_file.lines) - 1) :
       LexLess(out_file.lines[i], out_file.lines[i + 1])
  /\ Range(out_file.lines) \subseteq zip_urls
  /\ mpc \in {"saved", "done"}
       => /\ out_file.written
          /\ Range(out_file.lines) = zip_urls
          /\ Len(out_file.lines) = Cardinality(zip_urls)

\* the three target files of the third tree have been written
C14_ThreeLinesWritten ==
  /\ mpc = "done"
  /\ site = 3
  /\ Len(out_file.lines) = 3

\* the summary main() prints after save_results: the number of target
\* files found and the path of the output file
Summary == [msg |-> "completed", found |-> Cardinality(zip_urls), saved_to |-> output_file]

classify_no_denylist(ft, absolute_url) ==
  IF is_target_file(ft, absolute_url) THEN "TargetFile"
  ELSE IF is_directory(absolute_url) THEN "Directory"
  ELSE "Ignored"

KindNoDenylist(base, ft, href, absolute_url) ==
  IF href \in {H_up, H_dotdot} THEN "Parent"
  ELSE IF ~is_valid_url(base, absolute_url) THEN "Invalid"
  ELSE classify_no_denylist(ft, absolute_url)

CollectedNoDenylist(absolute_url, kind) ==
  IF kind = "TargetFile" THEN {absolute_url} ELSE {}

\* ---- C16: should_skip_file is an optimisation only: extract_links returns
\* the same directory list and adds the same URLs to zip_urls as it would
\* with the denylist check removed, so the check never keeps a URL with a
\* configured extension (one on the denylist included) from being collected
\* nor a URL ending in '/' from being returned.
C16_DenylistIsOptimisation ==
  (call.fn = "extract_links" /\ call.done)
    => /\ zip_urls =
            CollectedNoDenylist(urljoin(base_url, call.arg),
              KindNoDenylist(base_url, file_types, call.arg, urljoin(base_url, call.arg)))
       /\ call.res =
            LinksWith(<<>>, urljoin(base_url, call.arg),
              KindNoDenylist(base_url, file_types, call.arg, urljoin(base_url, call.arg)))
       /\ is_target_file(file_types, call.arg) => ~should_skip_file(file_types, call.arg)
       /\ is_directory(call.arg) => ~should_skip_file(file_types, call.arg)

\* extract_links has collected a file whose configured extension, iso, is on
\* the denylist
C16_DenylistedTargetCollected ==
  /\ call.fn = "extract_links"
  /\ call.done
  /\ EndsWith(Lower(call.arg), X_iso)
  /\ EndsWithAny(Lower(call.arg), skip_extensions)
  /\ call.arg \in zip_urls

\* ---- C17: a failed fetch of the dequeued URL u changes no shared state:
\* the crawl_url call leaves visited_urls, zip_urls and what is left of the
\* queue as they were, and u is not put on the queue again, by that call or
\* later.
C17_FailedFetchFrame ==
  [][/\ \A w \in Workers :
          FetchFail(w) => /\ visited_urls' = visited_urls
                          /\ zip_urls' = zip_urls
                          /\ url_queue' = url_queue
                          /\ put_count' = put_count
     /\ \A u \in failed : CopiesIn(u, put_count') = CopiesIn(u, put_count)]_vars

\* the fetch of a/ has failed while b/ waits on the queue
C17_FailedWithQueueWaiting ==
  /\ site = 2
  /\ failed = {U_fa}
  /\ url_queue = <<U_fb>>
  /\ visited_urls = {U_fa, U_fb}
  /\ \E w \in Workers : pc[w] = "get" /\ url[w] = U_fa

\* ---- C18: only directory URLs are fetched: every URL put on the queue,
\* waiting on it, dequeued or requested with GET ends with '/', so the
\* early return of crawl_url for a URL that is no directory is never taken.
C18_OnlyDirectoriesFetched ==
  /\ \A u \in Enqueued \cup Range(url_queue) \cup BagToSet(get_count) : is_directory(u)
  /\ \A w \in Workers : Running(w) => is_directory(url[w])
  /\ \A w \in Workers : pc[w] = "claim" => \A i \in DOMAIN links[w] : is_directory(links[w][i])

\* the root given without its '/' has been fetched, and the directories
\* found below it
C18_SlashlessRootFetched ==
  /\ site = 2
  /\ mpc = "returned"
  /\ BagToSet(get_count) = {U_f, U_fa, U_fb, U_fc}

\* ---- C19: no work is lost by workers stopping early: when crawl() returns
\* the queue is empty, and every URL put on it has been dequeued and handed
\* to crawl_url (which, every URL being a directory, issued its GET) once
\* for each time it was put.
C19_NoWorkLost ==
  mpc = "returned"
    => /\ url_queue = <<>>
       /\ unfinished_tasks = 0
       /\ \A w \in 1..max_threads : pc[w] = "stopped"
       /\ BagToSet(get_count) = BagToSet(put_count)
       /\ \A u \in Enqueued : CopiesIn(u, get_count) = CopiesIn(u, put_count)

\* crawl() has returned from a crawl of two threads and five fetches
C19_ReturnedAfterFiveFetches ==
  /\ mpc = "returned"
  /\ site = 2
  /\ max_threads = MaxThreads
  /\ BagCardinality(put_count) = BagCardinality(get_count)
  /\ BagToSet(put_count) = {U_f, U_fa, U_fb, U_fc}
  /\ CopiesIn(U_f, put_count) > CopiesIn(U_fa, put_count)

\* ---- C20: every URL other than the root is put on the queue and fetched
\* at most once; the root is put and fetched at most twice (once by
\* __init__, once more when a page links back to it).
C20_AtMostOnceRootTwice ==
  \A u \in BagToSet(put_count) \cup BagToSet(get_count) :
    /\ CopiesIn(u, get_count) <= CopiesIn(u, put_count)
    /\ IF u = base_url
       THEN CopiesIn(u, put_count) <= 2
       ELSE CopiesIn(u, put_count) <= 1

\* the root has been put and fetched twice, a directory linked from two
\* pages once
C20_RootTwiceOthersOnce ==
  /\ site = 2
  /\ CopiesIn(base_url, put_count) = 2
  /\ CopiesIn(base_url, get_count) = 2
  /\ CopiesIn(U_fc, put_count) = 1
  /\ CopiesIn(U_fc, get_count) = 1
  /\ \A w \in Workers : ~Running(w)

====
